---------------------------- MODULE Spec2Model ----------------------------
(***************************************************************************)
(* Model of src/app.py, the Jakarta AQI forecast dashboard (Streamlit).   *)
(*                                                                         *)
(* A Streamlit script is re-executed from top to bottom after every user   *)
(* interaction.  One action of this model is one such execution: a slider  *)
(* move, a click on "Predict Future AQI", or a click on one of the six     *)
(* year buttons.  What survives from one execution to the next is the      *)
(* widget state (the four sliders), st.session_state, and the page that    *)
(* the last execution rendered (which decides what can be clicked next).   *)
(*                                                                         *)
(* Numbers.  Python floats are modelled as exact rationals [num, den] in   *)
(* lowest terms (rounding error is abstracted away).  Coordinates are kept *)
(* in thousandths of a degree.                                             *)
(***************************************************************************)
EXTENDS Integers, Sequences, FiniteSets, TLC

VARIABLES
    df,              \* the historical table (load_data), rows in file order
    model,           \* the trained regressor (load_model)
    ev_switch,       \* slider "EV Adoption (%)"
    emission_reg,    \* slider "Emission Regulation Strictness (%)"
    green_area,      \* slider "Green Area Increase (%)"
    carbon_capture,  \* slider "Carbon Capture Efficiency (%)"
    session_state,   \* st.session_state: a function on the keys that are set
    run,             \* locals of the prediction logic in the last execution
    page             \* what the last execution rendered

vars == <<df, model, ev_switch, emission_reg, green_area, carbon_capture,
          session_state, run, page>>

---------------------------------------------------------------------------
(* Exact rational arithmetic standing in for Python float arithmetic.     *)

\* F applied to the value of e, with e evaluated once and in full (a LET name
\* is evaluated again at each use, and a function [i \in S |-> ...] is evaluated
\* again at each application, unless a comparison has made a value of it)
Bind(e, F(_)) == CHOOSE r \in {F(x) : x \in {y \in {e} : y = y}} : TRUE

Abs(x) == IF x < 0 THEN -x ELSE x

RECURSIVE GCD(_, _)
GCD(a, b) == IF b = 0 THEN a ELSE GCD(b, a % b)

\* n/d in lowest terms with a positive denominator (d # 0)
Rat(n, d) ==
    LET g == GCD(Abs(n), Abs(d))
    IN  IF d < 0 THEN [num |-> (-n) \div g, den |-> (-d) \div g]
        ELSE [num |-> n \div g, den |-> d \div g]

RInt(n) == [num |-> n, den |-> 1]

RAdd(a, b) ==
    LET g == GCD(a.den, b.den)
    IN  Rat(a.num * (b.den \div g) + b.num * (a.den \div g), a.den * (b.den \div g))

RNeg(a) == [num |-> -a.num, den |-> a.den]

RSub(a, b) == RAdd(a, RNeg(b))

RMul(a, b) ==
    LET g1 == GCD(Abs(a.num), b.den)
        g2 == GCD(Abs(b.num), a.den)
    IN  Rat((a.num \div g1) * (b.num \div g2), (a.den \div g2) * (b.den \div g1))

\* a / b, b # 0
RDiv(a, b) == RMul(a, Rat(b.den, b.num))

RLt(a, b) == a.num * b.den < b.num * a.den

RLe(a, b) == a.num * b.den <= b.num * a.den

RECURSIVE RSum(_)
RSum(s) == IF s = <<>> THEN RInt(0) ELSE RAdd(Head(s), RSum(Tail(s)))

---------------------------------------------------------------------------
(* The fixed data of the script.                                            *)

None == "None"

\* a missing station cell of the CSV, which pandas reads as NaN
NaN == "nan"

\* the six pollutant columns, in the order of line 71
Features == <<"pm25", "pm10", "so2", "co", "o3", "no2">>

FeatureSet == {Features[i] : i \in 1..Len(Features)}

\* station -> (latitude, longitude), in thousandths of a degree
station_coords ==
    ("DKI1 (Bunderan HI)" :> <<-6193, 106820>>) @@
    ("DKI2 (Kelapa Gading)" :> <<-6166, 106909>>) @@
    ("DKI3 (Jagakarsa)" :> <<-6338, 106823>>) @@
    ("DKI4 (Lubang Buaya)" :> <<-6293, 106894>>) @@
    ("DKI5 (Kebon Jeruk)" :> <<-6200, 106770>>)

\* the fallback of station_coords.get(station, (-6.2, 106.8))
DefaultCoords == <<-6200, 106800>>

CoordsOf(station) ==
    IF station \in DOMAIN station_coords THEN station_coords[station]
    ELSE DefaultCoords

\* the range of each of the four sliders: st.sidebar.slider(label, 0, 100, default)
SliderMin == 0
SliderMax == 100

\* a slider without its upper end
SliderAcceptsNoUpper(v) == v >= SliderMin

\* the widget offers exactly the integers SliderMin..SliderMax
SliderAccepts(v) == v >= SliderMin /\ v <= SliderMax

\* the defaults of the four sliders
DefaultScenario ==
    [ev_switch |-> 30, emission_reg |-> 40, green_area |-> 25, carbon_capture |-> 20]

\* np.arange(first, stop): first, first+1, ..., stop-1
Arange(first, stop) == [i \in 1..(stop - first) |-> first + i - 1]

\* a horizon that stops one year early
future_years_short == Arange(2025, 2030)

future_years == Arange(2025, 2031)

\* years = list(range(2025, 2031)), the year buttons
years == Arange(2025, 2031)

\* the index of line_data, np.arange(2025, 2031)
ChartIndex == Arange(2025, 2031)

---------------------------------------------------------------------------
(* The inputs: the cached table and the cached regressor.  Both are read    *)
(* once and never written, so they are chosen in Init and stay fixed.       *)

\* the largest number of readings a station has in a sample table
MaxReadings == 2

\* the largest number of stations whose vectors the regressor rejects in a run
MaxRejected == 1

Reading(station, v) ==
    [stasiun |-> station, pm25 |-> v[1], pm10 |-> v[2], so2 |-> v[3],
     co |-> v[4], o3 |-> v[5], no2 |-> v[6]]

\* n readings of DKI1, the j-th one a little worse than the one before
Dki1Readings(n) ==
    [j \in 1..n |->
        Reading("DKI1 (Bunderan HI)",
                <<35 + 5 * j, 60 + j, 12, 4 + j, 18, 25 + 3 * j>>)]

\* rows that a raw file can hold: a missing station cell, an unlisted station
StrayReadings ==
    << Reading(NaN, <<70, 70, 70, 70, 70, 70>>),
       Reading("DKI6 (Unlisted)", <<120, 90, 20, 8, 40, 60>>) >>

\* DKI4 and DKI5 are in station_coords and have no reading in any sample table
Table(n, stray) ==
    << Reading("DKI2 (Kelapa Gading)", <<50, 40, 10, 5, 20, 30>>),
       Reading("DKI3 (Jagakarsa)", <<90, 80, 15, 9, 30, 45>>) >>
    \o Dki1Readings(n)
    \o (IF stray THEN StrayReadings ELSE <<>>)
    \o << Reading("DKI3 (Jagakarsa)", <<110, 100, 25, 11, 50, 55>>) >>

Tables == {Table(n, stray) : n \in 0..MaxReadings, stray \in BOOLEAN}

\* the regressor of jakarta_aqi_model.pkl is not part of the repository: any
\* function of the six features will do, and these two linear ones stand for it
Regressors ==
    { [intercept |-> 0,
       coef |-> [f \in FeatureSet |-> IF f = "pm25" THEN 1 ELSE 0]],
      [intercept |-> 5,
       coef |-> [f \in FeatureSet |-> IF f \in {"pm25", "no2"} THEN 1 ELSE 0]] }

\* the values a user tries on each slider; the widget refuses those outside
\* its range
EvInputs == {0, 30, 100, 105}
RegInputs == {-5, 0, 40, 100}
GreenInputs == {0, 25, 105}
CaptureInputs == {-5, 0, 20}

\* the values among S that a slider can take
Accepted(S) == {v \in S : SliderAccepts(v)}

\* the scenarios that the sliders can show
Scenarios ==
    [ev_switch : Accepted(EvInputs \cup {DefaultScenario.ev_switch}),
     emission_reg : Accepted(RegInputs \cup {DefaultScenario.emission_reg}),
     green_area : Accepted(GreenInputs \cup {DefaultScenario.green_area}),
     carbon_capture : Accepted(CaptureInputs \cup {DefaultScenario.carbon_capture})]

---------------------------------------------------------------------------
(* pandas and numpy, as far as the script uses them.                        *)

\* the elementwise == of a column with a value: NaN equals nothing
PandasEq(a, b) == a # NaN /\ b # NaN /\ a = b

\* df[df["stasiun"] == station]
Mask(table, station) == SelectSeq(table, LAMBDA r : PandasEq(r.stasiun, station))

\* Series.unique(): the values in order of first appearance, NaN included once
RECURSIVE UniqueFrom(_, _)
UniqueFrom(s, seen) ==
    IF s = <<>> THEN <<>>
    ELSE IF Head(s) \in seen THEN UniqueFrom(Tail(s), seen)
    ELSE <<Head(s)>> \o UniqueFrom(Tail(s), seen \cup {Head(s)})

Unique(table) == UniqueFrom([i \in 1..Len(table) |-> table[i].stasiun], {})

\* sub[[...six columns...]].mean(): the column means of a non-empty frame
Mean(sub) ==
    [f \in FeatureSet |->
        RDiv(RSum([i \in 1..Len(sub) |-> RInt(sub[i][f])]), RInt(Len(sub)))]

\* np.mean of a non-empty vector
NpMean(v) == RDiv(RSum(v), RInt(Len(v)))

\* a linspace that divides by num, as with endpoint=False
linspaceNoEndpoint(start, stop, num) ==
    Bind(RDiv(RSub(stop, start), RInt(num)),
         LAMBDA step : [i \in 1..num |-> RAdd(start, RMul(RInt(i - 1), step))])

\* np.linspace(start, stop, num): num evenly spaced values, both ends included
linspace(start, stop, num) ==
    IF num = 1 THEN <<start>>
    ELSE Bind(RDiv(RSub(stop, start), RInt(num - 1)),
              LAMBDA step : [i \in 1..num |-> RAdd(start, RMul(RInt(i - 1), step))])

\* model.predict(X): one value per row of X
predict(m, X) ==
    [i \in 1..Len(X) |->
        RAdd(RInt(m.intercept),
             RSum([k \in 1..Len(Features) |->
                     RMul(RInt(m.coef[Features[k]]), X[i][Features[k]])]))]

---------------------------------------------------------------------------
(* The prediction logic, lines 61-100.                                      *)

Scenario ==
    [ev_switch |-> ev_switch, emission_reg |-> emission_reg,
     green_area |-> green_area, carbon_capture |-> carbon_capture]

\* the factors with the normalizer of PM2.5 used for PM10 as well
MultiplierSharedNormalizer(column, sc) ==
    CASE column = "pm25" -> RSub(RInt(1), Rat(sc.ev_switch + sc.emission_reg, 200))
      [] column = "pm10" -> RSub(RInt(1), Rat(sc.green_area + sc.emission_reg, 200))
      [] column = "co"   -> RSub(RInt(1), Rat(sc.carbon_capture + sc.ev_switch, 250))
      [] column = "no2"  -> RSub(RInt(1), Rat(sc.emission_reg + sc.ev_switch, 180))
      [] column = "so2"  -> RSub(RInt(1), Rat(sc.carbon_capture + sc.emission_reg, 230))
      [] column = "o3"   -> RSub(RInt(1), Rat(sc.green_area, 200))

\* the factor of lines 77-82 for one column
Multiplier(column, sc) ==
    CASE column = "pm25" -> RSub(RInt(1), Rat(sc.ev_switch + sc.emission_reg, 200))
      [] column = "pm10" -> RSub(RInt(1), Rat(sc.green_area + sc.emission_reg, 220))
      [] column = "co"   -> RSub(RInt(1), Rat(sc.carbon_capture + sc.ev_switch, 250))
      [] column = "no2"  -> RSub(RInt(1), Rat(sc.emission_reg + sc.ev_switch, 180))
      [] column = "so2"  -> RSub(RInt(1), Rat(sc.carbon_capture + sc.emission_reg, 230))
      [] column = "o3"   -> RSub(RInt(1), Rat(sc.green_area, 200))

\* lines 74-82: one row of means per future year, then every column scaled
XFuture(mean_features, sc) ==
    Bind([f \in FeatureSet |-> Multiplier(f, sc)],
         LAMBDA factor :
            [i \in 1..Len(future_years) |->
                [f \in FeatureSet |-> RMul(mean_features[f], factor[f])]])

\* line 88: the improvement trend toward 2030
Trend(num) == linspace(RInt(1), Rat(85, 100), num)

\* line 88
AdjustedPred(base_pred) ==
    Bind(Trend(Len(base_pred)),
         LAMBDA trend : [i \in 1..Len(base_pred) |-> RMul(base_pred[i], trend[i])])

\* lines 91-97: the row appended to results
ResultRow(station, adjusted_pred) ==
    [stasiun |-> station,
     latitude |-> CoordsOf(station)[1],
     longitude |-> CoordsOf(station)[2],
     avg_aqi |-> NpMean(adjusted_pred),
     predictions |-> adjusted_pred]

\* the locals of one pass of the loop, kept for inspection
Locals(station, mean_features, X_future, base_pred, adjusted_pred) ==
    [station |-> station, mean_features |-> mean_features, X_future |-> X_future,
     base_pred |-> base_pred, adjusted_pred |-> adjusted_pred]

\* the state of the loop before its first pass
LoopStart == [results |-> <<>>, warnings |-> <<>>, trace |-> <<>>, exception |-> None]

\* lines 65-97: the loop over the stations still to do.  `rejected` is the set
\* of stations on whose vectors model.predict raises; the exception is not
\* caught, so it ends the loop and the execution.
\* lines 66-97: one pass of the loop, from the state `acc` of the loop
StationPass(station, sub, sc, m, rejected, acc) ==
    IF sub = <<>>
    THEN [acc EXCEPT !.warnings = Append(@, station)]
    ELSE
      Bind(Mean(sub), LAMBDA mean_features :
      Bind(XFuture(mean_features, sc), LAMBDA X_future :
        IF station \in rejected
        THEN [acc EXCEPT
                !.trace = Append(@, Locals(station, mean_features, X_future,
                                           <<>>, <<>>)),
                !.exception = "ModelInferenceError"]
        ELSE
          Bind(predict(m, X_future), LAMBDA base_pred :
          Bind(AdjustedPred(base_pred), LAMBDA adjusted_pred :
            [acc EXCEPT
               !.results = Append(@, ResultRow(station, adjusted_pred)),
               !.trace = Append(@, Locals(station, mean_features, X_future,
                                          base_pred, adjusted_pred))]))))

\* lines 65-97: the loop over the stations still to do.  `rejected` is the set
\* of stations on whose vectors model.predict raises; the exception is not
\* caught, so it ends the loop and the execution.
RECURSIVE StationLoop(_, _, _, _, _, _)
StationLoop(todo, table, sc, m, rejected, acc) ==
    IF todo = <<>> \/ acc.exception # None THEN acc
    ELSE StationLoop(Tail(todo), table, sc, m, rejected,
                     Bind(Mask(table, Head(todo)),
                          LAMBDA sub : StationPass(Head(todo), sub, sc, m, rejected, acc)))

Range(s) == {s[i] : i \in 1..Len(s)}

\* the sets of stations on whose vectors the regressor may raise in one run
RejectChoices(table) ==
    {R \in SUBSET (Range(Unique(table)) \ {NaN}) : Cardinality(R) <= MaxRejected}

\* lines 62-97 for the whole table
PredictionLogic(table, sc, m, rejected) ==
    StationLoop(Unique(table), table, sc, m, rejected, LoopStart)

\* PredictionLogic on every input of the model, computed once: the logic is a
\* function of its four inputs, and the actions look its result up here
PredictionMemo ==
    Bind([table \in Tables |-> [m \in Regressors |-> [sc \in Scenarios |->
            [rejected \in RejectChoices(table) |->
                PredictionLogic(table, sc, m, rejected)]]]],
         LAMBDA memo : memo)

---------------------------------------------------------------------------
(* The display of the results, lines 105-188.                               *)

\* the colour with the bounds of the bands taken into the lower band
MarkerColorInclusive(year_aqi) ==
    IF RLe(year_aqi, RInt(50)) THEN "green"
    ELSE IF RLe(year_aqi, RInt(100)) THEN "orange"
    ELSE "red"

\* line 178: the colour of a marker
MarkerColor(year_aqi) ==
    IF RLt(year_aqi, RInt(50)) THEN "green"
    ELSE IF RLt(year_aqi, RInt(100)) THEN "orange"
    ELSE "red"

\* a page on which nothing of the results section is drawn: either the hint
\* of line 188, or the traceback of the exception that ended the execution
BarePage(exception, warnings) ==
    [exception |-> exception, warnings |-> warnings, info |-> exception = None,
     table |-> <<>>, line_data |-> <<>>, year_buttons |-> {},
     shown_year |-> {}, markers |-> <<>>]

\* line 110: the table of station and average
AvgTable(results_df) ==
    [k \in 1..Len(results_df) |->
        [stasiun |-> results_df[k].stasiun, avg_aqi |-> results_df[k].avg_aqi]]

\* lines 114-117: one column per station, indexed by ChartIndex; position i of
\* a prediction sequence lands on the i-th year of the index
LineData(results_df) ==
    [k \in 1..Len(results_df) |->
        [Station |-> results_df[k].stasiun,
         AQI |-> [y \in Range(ChartIndex) |->
                    results_df[k].predictions[CHOOSE i \in 1..Len(ChartIndex) :
                                                 ChartIndex[i] = y]]]]

\* lines 176-184: one marker per row, coloured by the value of the shown year
Markers(results_df, year_index) ==
    [k \in 1..Len(results_df) |->
        LET year_aqi == results_df[k].predictions[year_index + 1]
        IN  [stasiun |-> results_df[k].stasiun,
             location |-> <<results_df[k].latitude, results_df[k].longitude>>,
             year_aqi |-> year_aqi,
             color |-> MarkerColor(year_aqi)]]

\* lines 105-188 on session `ss`, in an execution that printed `warnings` and in
\* which the year buttons in `clicked` (none or one) report a click.  Gives the
\* session as the section leaves it and the page it draws.
Display(ss, warnings, clicked) ==
    IF "station_results" \notin DOMAIN ss
    THEN [session |-> ss, page |-> BarePage(None, warnings)]
    ELSE
      LET results_df == ss["station_results"]
      IN  IF results_df = <<>>
          \* an empty frame has no column "stasiun" to select on line 110
          THEN [session |-> ss, page |-> BarePage("KeyError", warnings)]
          ELSE IF \E k \in 1..Len(results_df) :
                     Len(results_df[k].predictions) # Len(ChartIndex)
          \* pandas refuses a column whose length differs from the index
          THEN [session |-> ss,
                page |-> [BarePage("ValueError", warnings) EXCEPT
                            !.table = AvgTable(results_df)]]
          ELSE
            LET ss1 == IF "selected_year" \notin DOMAIN ss
                       THEN ("selected_year" :> 2025) @@ ss
                       ELSE ss
                ss2 == IF clicked = {} THEN ss1
                       ELSE ("selected_year" :> (CHOOSE y \in clicked : TRUE)) @@ ss1
                selected_year == ss2["selected_year"]
                year_index == selected_year - 2025
                drawn == [exception |-> None, warnings |-> warnings, info |-> FALSE,
                          table |-> AvgTable(results_df),
                          line_data |-> LineData(results_df),
                          year_buttons |-> Range(years),
                          shown_year |-> {selected_year},
                          markers |-> <<>>]
            IN  IF \E k \in 1..Len(results_df) :
                       year_index + 1 \notin 1..Len(results_df[k].predictions)
                THEN [session |-> ss2,
                      page |-> [drawn EXCEPT !.exception = "IndexError"]]
                ELSE [session |-> ss2,
                      page |-> [drawn EXCEPT
                                  !.markers = Markers(results_df, year_index)]]

---------------------------------------------------------------------------
(* The executions of the script.                                            *)

\* no prediction logic ran in this execution
NoRun == [clicked |-> FALSE, trace |-> <<>>, exception |-> None]

\* an execution in which the Predict button reports no click: lines 61-100
\* are skipped and the results section shows what the session holds
Rerun(clicked) ==
    \E d \in {Display(session_state, <<>>, clicked)} :
        /\ session_state' = d.session
        /\ page' = d.page
        /\ run' = NoRun

MoveEvSwitch ==
    \E v \in EvInputs :
        /\ SliderAccepts(v)
        /\ v # ev_switch
        /\ ev_switch' = v
        /\ Rerun({})
        /\ UNCHANGED <<df, model, emission_reg, green_area, carbon_capture>>

MoveEmissionReg ==
    \E v \in RegInputs :
        /\ SliderAccepts(v)
        /\ v # emission_reg
        /\ emission_reg' = v
        /\ Rerun({})
        /\ UNCHANGED <<df, model, ev_switch, green_area, carbon_capture>>

MoveGreenArea ==
    \E v \in GreenInputs :
        /\ SliderAccepts(v)
        /\ v # green_area
        /\ green_area' = v
        /\ Rerun({})
        /\ UNCHANGED <<df, model, ev_switch, emission_reg, carbon_capture>>

MoveCarbonCapture ==
    \E v \in CaptureInputs :
        /\ SliderAccepts(v)
        /\ v # carbon_capture
        /\ carbon_capture' = v
        /\ Rerun({})
        /\ UNCHANGED <<df, model, ev_switch, emission_reg, green_area>>

\* a click on "Predict Future AQI": lines 61-100, then the results section.
\* An exception of model.predict ends the execution before line 99.
ClickPredict ==
    \E rejected \in RejectChoices(df) :
        \E r \in {PredictionMemo[df][model][Scenario][rejected]} :
            /\ run' = [clicked |-> TRUE, trace |-> r.trace, exception |-> r.exception]
            /\ IF r.exception # None
               THEN /\ session_state' = session_state
                    /\ page' = BarePage(r.exception, r.warnings)
               ELSE \E d \in {Display(("station_results" :> r.results) @@
                                      ("selected_year" :> 2025) @@ session_state,
                                      r.warnings, {})} :
                        /\ session_state' = d.session
                        /\ page' = d.page
            /\ UNCHANGED <<df, model, ev_switch, emission_reg, green_area,
                           carbon_capture>>

\* a click on the button of `year`, which exists only on a page that drew it
ClickYear ==
    \E year \in page.year_buttons :
        /\ Rerun({year})
        /\ UNCHANGED <<df, model, ev_switch, emission_reg, green_area,
                       carbon_capture>>

Init ==
    /\ df \in Tables
    /\ model \in Regressors
    /\ ev_switch = DefaultScenario.ev_switch
    /\ emission_reg = DefaultScenario.emission_reg
    /\ green_area = DefaultScenario.green_area
    /\ carbon_capture = DefaultScenario.carbon_capture
    /\ session_state = <<>>
    /\ run = NoRun
    /\ page = BarePage(None, <<>>)

Next ==
    \/ MoveEvSwitch
    \/ MoveEmissionReg
    \/ MoveGreenArea
    \/ MoveCarbonCapture
    \/ ClickPredict
    \/ ClickYear

Spec == Init /\ [][Next]_vars

---------------------------------------------------------------------------
(* Vocabulary of the properties.                                            *)

HasResults == "station_results" \in DOMAIN session_state

\* the stations of the forecasts the session holds
StoredStations ==
    {session_state["station_results"][k].stasiun :
        k \in 1..Len(session_state["station_results"])}

\* the stations that have at least one reading in the table
StationsWithReadings == {df[i].stasiun : i \in 1..Len(df)} \ {NaN}

\* the last execution ran the prediction logic to its end
RunCompleted == run.clicked /\ run.exception = None

\* the last execution ran the prediction logic and the regressor raised in it
RunRaised == run.clicked /\ run.exception # None

REq(a, b) == a.num * b.den = b.num * a.den

InPercentDomain(v) == v \in 0..100

\* the drivers and the normalizer of each pollutant, from the table of the
\* feature projector
DriverSum(f) ==
    CASE f = "pm25" -> ev_switch + emission_reg
      [] f = "pm10" -> green_area + emission_reg
      [] f = "co"   -> carbon_capture + ev_switch
      [] f = "no2"  -> emission_reg + ev_switch
      [] f = "so2"  -> carbon_capture + emission_reg
      [] f = "o3"   -> green_area

Normalizer(f) ==
    CASE f = "pm25" -> 200
      [] f = "pm10" -> 220
      [] f = "co"   -> 250
      [] f = "no2"  -> 180
      [] f = "so2"  -> 230
      [] f = "o3"   -> 200

\* the sum of column f over the readings of a station
RECURSIVE ColumnSum(_, _, _)
ColumnSum(station, f, i) ==
    IF i = 0 THEN 0
    ELSE ColumnSum(station, f, i - 1)
         + (IF df[i].stasiun = station THEN df[i][f] ELSE 0)

ReadingCount(station) == Cardinality({i \in 1..Len(df) : df[i].stasiun = station})

\* the damping factors of the six years, in hundredths
DampingPercent == <<100, 97, 94, 91, 88, 85>>

---------------------------------------------------------------------------
(* C1.  With the four parameters in [0,100] and non-negative pollutant      *)
(* means, every scenario multiplier is in [0,1]: every projected            *)
(* concentration handed to the regressor is non-negative and at most the    *)
(* mean it was projected from.                                              *)
C1_MultipliersNonNegative ==
    run.clicked =>
        \A k \in 1..Len(run.trace) :
            \A i \in 1..Len(run.trace[k].X_future) :
                \A f \in FeatureSet :
                    LET mean == run.trace[k].mean_features[f]
                        x == run.trace[k].X_future[i][f]
                    IN  mean.num >= 0 => (x.num >= 0 /\ RLe(x, mean))

(* C2.  The colour of a marker is a total function of its AQI value with    *)
(* three disjoint bands: below 50 green (LOW), from 50 to below 100 orange  *)
(* (MODERATE), 100 and above red (HIGH); 50 and 100 belong to the higher    *)
(* band.                                                                    *)
C2_RiskBands ==
    \A k \in 1..Len(page.markers) :
        LET aqi == page.markers[k].year_aqi
            color == page.markers[k].color
        IN  /\ color \in {"green", "orange", "red"}
            /\ color = "green" <=> aqi.num < 50 * aqi.den
            /\ color = "orange" <=> (50 * aqi.den <= aqi.num /\ aqi.num < 100 * aqi.den)
            /\ color = "red" <=> 100 * aqi.den <= aqi.num

\* one map that shows a value of exactly 50 in orange, a value of exactly 100
\* in red and a value below 50 in green
C2_BoundaryMarkersShown ==
    /\ \E k \in 1..Len(page.markers) :
          page.markers[k].year_aqi = RInt(50) /\ page.markers[k].color = "orange"
    /\ \E k \in 1..Len(page.markers) :
          page.markers[k].year_aqi = RInt(100) /\ page.markers[k].color = "red"
    /\ \E k \in 1..Len(page.markers) :
          RLt(page.markers[k].year_aqi, RInt(50)) /\ page.markers[k].color = "green"

(* C3.  For every station and scenario the projected vector of each of the  *)
(* six years is the mean vector of the station's readings with pollutant f  *)
(* scaled by 1 - DriverSum(f)/Normalizer(f); the six vectors are identical; *)
(* at scenario (0,0,0,0) they equal the mean vector; at (30,40,25,20) a     *)
(* PM2.5 mean of 50 projects to 32.5 in all six years.                      *)
C3_ProjectedFeatures ==
    run.clicked =>
        \A k \in 1..Len(run.trace) :
            LET t == run.trace[k]
            IN  /\ Len(t.X_future) = 6
                /\ \A f \in FeatureSet :
                      t.mean_features[f].num * ReadingCount(t.station)
                        = ColumnSum(t.station, f, Len(df)) * t.mean_features[f].den
                /\ \A i \in 1..Len(t.X_future) :
                      /\ t.X_future[i] = t.X_future[1]
                      /\ \A f \in FeatureSet :
                            t.X_future[i][f].num * (t.mean_features[f].den * Normalizer(f))
                              = t.mean_features[f].num * (Normalizer(f) - DriverSum(f))
                                  * t.X_future[i][f].den
                      /\ Scenario = [ev_switch |-> 0, emission_reg |-> 0,
                                     green_area |-> 0, carbon_capture |-> 0]
                            => t.X_future[i] = t.mean_features
                      /\ (/\ Scenario = [ev_switch |-> 30, emission_reg |-> 40,
                                         green_area |-> 25, carbon_capture |-> 20]
                          /\ t.mean_features["pm25"] = RInt(50))
                            => t.X_future[i]["pm25"] = [num |-> 65, den |-> 2]

\* a run at scenario (30,40,25,20) over a station whose PM2.5 mean is 50
C3_EndToEndExampleRun ==
    /\ run.clicked
    /\ Scenario = [ev_switch |-> 30, emission_reg |-> 40,
                   green_area |-> 25, carbon_capture |-> 20]
    /\ \E k \in 1..Len(run.trace) :
          /\ run.trace[k].mean_features["pm25"] = RInt(50)
          /\ run.trace[k].X_future[6]["pm25"] = [num |-> 65, den |-> 2]

(* C4.  A run in which the regressor rejects one station's vectors skips    *)
(* only that station: the session then holds the forecasts of this run for  *)
(* every other station that has readings.                                   *)
C4_PartialResultsStored ==
    RunRaised =>
        LET failed == run.trace[Len(run.trace)].station
        IN  /\ HasResults
            /\ StoredStations = StationsWithReadings \ {failed}

(* C5.  A station that has no reading is left out of the result set and a   *)
(* warning names it, and the result set holds exactly one forecast for each *)
(* station that has a reading.                                              *)
C5_ZeroReadingStationsReported ==
    RunCompleted =>
        /\ \A s \in DOMAIN station_coords :
              s \notin StationsWithReadings =>
                  (s \notin StoredStations /\ s \in Range(page.warnings))
        /\ StoredStations = StationsWithReadings
        /\ Len(session_state["station_results"]) = Cardinality(StationsWithReadings)

(* C6.  No forecast is computed from a scenario with a parameter outside    *)
(* [0,100]: in every execution, and so in every run of the prediction       *)
(* logic, the four parameters are in [0,100]; an input outside the domain   *)
(* never reaches a run, so it replaces no stored result.                    *)
C6_ScenarioInDomain ==
    /\ InPercentDomain(ev_switch)
    /\ InPercentDomain(emission_reg)
    /\ InPercentDomain(green_area)
    /\ InPercentDomain(carbon_capture)

\* a completed run at the ends of the domain
C6_RunAtDomainEnds ==
    RunCompleted /\ ev_switch = 100 /\ emission_reg = 0 /\ green_area = 0

(* C7.  The value stored for year index i (0..5) is the raw prediction of   *)
(* that year times 1 - 0.15*i/5, that is times 1.0, 0.97, 0.94, 0.91, 0.88, *)
(* 0.85, for every station and scenario.                                    *)
C7_Damping ==
    RunCompleted =>
        /\ Len(session_state["station_results"]) = Len(run.trace)
        /\ \A k \in 1..Len(run.trace) :
              LET raw == run.trace[k].base_pred
                  stored == session_state["station_results"][k].predictions
              IN  /\ session_state["station_results"][k].stasiun = run.trace[k].station
                  /\ Len(stored) = Len(raw)
                  /\ Len(raw) <= Len(DampingPercent)
                  /\ \A i \in 1..Len(raw) :
                        stored[i] = RMul(raw[i], Rat(DampingPercent[i], 100))

\* a completed run whose 2030 value is a non-zero raw prediction times 0.85
C7_DampedForecastStored ==
    /\ RunCompleted
    /\ \E k \in 1..Len(run.trace) :
          /\ Len(run.trace[k].base_pred) = 6
          /\ run.trace[k].base_pred[6].num > 0
          /\ session_state["station_results"][k].predictions[6]
                = RMul(run.trace[k].base_pred[6], Rat(85, 100))

(* C8.  Every stored forecast has exactly six values, for 2025, 2026, ...,  *)
(* 2030 in this order: the chart shows the value at position k under year   *)
(* 2025+k and the map shows the value at position selected_year - 2025.     *)
C8_SixPointsPerStation ==
    HasResults =>
        \A k \in 1..Len(session_state["station_results"]) :
            LET row == session_state["station_results"][k]
            IN  /\ Len(row.predictions) = 6
                /\ page.line_data # <<>> =>
                      /\ page.line_data[k].Station = row.stasiun
                      /\ DOMAIN page.line_data[k].AQI = 2025..2030
                      /\ \A j \in 0..5 :
                            page.line_data[k].AQI[2025 + j] = row.predictions[j + 1]
                /\ page.markers # <<>> =>
                      \A y \in page.shown_year :
                          page.markers[k].year_aqi = row.predictions[y - 2025 + 1]

\* a map of the year 2030 whose value is the sixth and differs from the first
C8_LastYearShown ==
    /\ HasResults
    /\ page.shown_year = {2030}
    /\ \E k \in 1..Len(page.markers) :
          /\ page.markers[k].year_aqi
                = session_state["station_results"][k].predictions[6]
          /\ page.markers[k].year_aqi
                # session_state["station_results"][k].predictions[1]

(* C9.  The stored forecast is the one computed from the slider values at   *)
(* the most recent Predict click: after an execution in which Predict was   *)
(* clicked, the results in the session are those of the current sliders.    *)
C9_DisplayedIsLastPredict ==
    (run.clicked /\ HasResults) =>
        session_state["station_results"]
            = PredictionMemo[df][model][Scenario][{}].results

\* the part of C9 about the other interactions: an execution without a
\* Predict click leaves the stored results as they are
C9_OnlyPredictWrites ==
    [][ (~run'.clicked) =>
           /\ HasResults' <=> HasResults
           /\ HasResults =>
                 session_state'["station_results"] = session_state["station_results"]
      ]_vars

(* C10.  Every Predict click resets the selected year to 2025, whatever     *)
(* year was chosen before; with results in the session the selected year is *)
(* one of 2025..2030.                                                       *)
C10_PredictResetsYear ==
    /\ HasResults =>
          /\ "selected_year" \in DOMAIN session_state
          /\ session_state["selected_year"] \in 2025..2030
    /\ (run.clicked /\ HasResults) => session_state["selected_year"] = 2025

\* the part of C10 that does not depend on the click: with results in the
\* session the selected year is one of 2025..2030 and the map shows it
C10_SelectedYearInRange ==
    HasResults =>
        /\ "selected_year" \in DOMAIN session_state
        /\ session_state["selected_year"] \in 2025..2030
        /\ session_state["selected_year"] - 2025 \in 0..5
        /\ page.exception = None => page.shown_year = {session_state["selected_year"]}

==========================================================================
